---- MODULE Spec2Model ----
(***************************************************************************)
(* Model of the pi_cam node service (src/listen.py), its controller        *)
(* (src/main_trigger.py) and the viewers (src/viewer.py,                   *)
(* src/viewer_central.py).                                                 *)
(*                                                                         *)
(* Five specifications share this module:                                  *)
(*   SpecParse  the trigger message codec (parse_message) on bounded       *)
(*              datagrams, and the file name built from its result;        *)
(*   SpecDemux  the frame demultiplexer (_mjpeg_frames) on bounded byte    *)
(*              streams under every division into reads;                   *)
(*   Spec       one node: the trigger loop (main) and the /stream request  *)
(*              handlers (stream.generate) sharing _stream_proc and        *)
(*              _stream_lock;                                              *)
(*   SpecFair   Spec with the threads of the node scheduled fairly;        *)
(*   SpecWeb    one HTTP request: artifact fetch on the node, the viewer   *)
(*              and the central proxy, and the central index.              *)
(*                                                                         *)
(* Time is counted in milliseconds (integers).  Text is a sequence of      *)
(* one-character strings; bytes of the video stream are integers 0..255.   *)
(***************************************************************************)
EXTENDS Integers, Sequences, FiniteSets, TLC

\* ------------------------------------------------------------------------
\* Bounds of the model
\* ------------------------------------------------------------------------
\* longest raw tail (after the head token) of a generated datagram
MaxTail == 3
\* number of concurrent /stream request handlers
NumHandlers == 2
\* number of datagrams the trigger loop receives
MaxDatagrams == 2
\* amount, in ms, by which a late sleep overshoots its wake-up time
MaxOversleep == 1
\* largest number of well-formed spans in a generated byte stream
MaxSpans == 2
\* largest lateness (ms) of a capture that counts as scheduling slack
MaxSlack == 50

\* ------------------------------------------------------------------------
\* Program constants (times in ms)
\* ------------------------------------------------------------------------
TicksPerSec == 1000
DEFAULT_DELAY_SEC == 800
TRIGGER_SETTLE_SEC == 120
FILENAME_PREFIX_DEFAULT == <<"c", "a", "p", "t", "u", "r", "e">>
SHOOT == <<"s", "h", "o", "o", "t">>

\* a byte that is not valid UTF-8 (dropped by decode(errors="ignore"))
BADBYTE == "<ff>"
Whitespace == {" ", "\n"}
Digits == {"0", "1", "2", "3", "4", "5", "6", "7", "8", "9"}

\* float("nan"): every comparison with it is false.  Timestamps that the
\* digits of a datagram can spell are >= 0, so -1 is free to stand for it.
NaN == -1

\* ------------------------------------------------------------------------
\* Text helpers (str methods used by parse_message)
\* ------------------------------------------------------------------------
\* bytes.decode("utf-8", errors="ignore")
Decode(data) == SelectSeq(data, LAMBDA c : c # BADBYTE)

RECURSIVE LStrip(_)
LStrip(s) ==
    IF s # <<>> /\ Head(s) \in Whitespace THEN LStrip(Tail(s)) ELSE s

RECURSIVE RStrip(_)
RStrip(s) ==
    IF s # <<>> /\ s[Len(s)] \in Whitespace
    THEN RStrip(SubSeq(s, 1, Len(s) - 1))
    ELSE s

\* str.strip()
Strip(s) == RStrip(LStrip(s))

\* str.startswith(p)
StartsWith(s, p) == Len(s) >= Len(p) /\ SubSeq(s, 1, Len(p)) = p

\* str.split(sep) for a one-character separator
RECURSIVE Split(_, _)
Split(s, sep) ==
    IF \E i \in 1..Len(s) : s[i] = sep
    THEN LET i == CHOOSE k \in 1..Len(s) :
                      s[k] = sep /\ \A j \in 1..(k - 1) : s[j] # sep
         IN  <<SubSeq(s, 1, i - 1)>> \o Split(SubSeq(s, i + 1, Len(s)), sep)
    ELSE <<s>>

DigitVal(c) ==
    CASE c = "0" -> 0 [] c = "1" -> 1 [] c = "2" -> 2 [] c = "3" -> 3
      [] c = "4" -> 4 [] c = "5" -> 5 [] c = "6" -> 6 [] c = "7" -> 7
      [] c = "8" -> 8 [] c = "9" -> 9

RECURSIVE IntVal(_)
IntVal(ds) ==
    IF ds = <<>> THEN 0
    ELSE IntVal(SubSeq(ds, 1, Len(ds) - 1)) * 10 + DigitVal(ds[Len(ds)])

\* value in ms of the digits after the decimal point (ms precision)
FracVal(ds) ==
    LET d(i) == IF i <= Len(ds) THEN DigitVal(ds[i]) ELSE 0
    IN  d(1) * 100 + d(2) * 10 + d(3)

AllDigits(s) == \A i \in 1..Len(s) : s[i] \in Digits

\* float(s) accepts s: surrounding whitespace is ignored; "nan", or digits
\* with at most one decimal point and at least one digit
FloatOk(s) ==
    LET u == Strip(s)
        parts == Split(u, ".")
    IN  \/ u = <<"n", "a", "n">>
        \/ /\ Len(parts) = 1
           /\ u # <<>>
           /\ AllDigits(u)
        \/ /\ Len(parts) = 2
           /\ AllDigits(parts[1])
           /\ AllDigits(parts[2])
           /\ Len(parts[1]) + Len(parts[2]) >= 1

\* a conversion that keeps the whole seconds only
FloatValWhole(s) ==
    LET u == Strip(s)
        parts == Split(u, ".")
    IN  IF u = <<"n", "a", "n">> THEN NaN
        ELSE IntVal(parts[1]) * TicksPerSec

\* float(s) in ms, for s with FloatOk(s)
FloatVal(s) ==
    LET u == Strip(s)
        parts == Split(u, ".")
    IN  IF u = <<"n", "a", "n">> THEN NaN
        ELSE IF Len(parts) = 1 THEN IntVal(u) * TicksPerSec
        ELSE IntVal(parts[1]) * TicksPerSec + FracVal(parts[2])

\* ------------------------------------------------------------------------
\* parse_message (src/listen.py:77-98)
\* ------------------------------------------------------------------------
None == [some |-> FALSE, t |-> 0, p |-> <<>>]
Command(t, p) == [some |-> TRUE, t |-> t, p |-> p]

\* parse_message without the startswith("shoot") guard
parse_message_noguard(data, clk) ==
    LET text == Strip(Decode(data))
        parts == Split(text, ":")
    IN  IF Len(parts) = 1
        THEN Command(clk + DEFAULT_DELAY_SEC, FILENAME_PREFIX_DEFAULT)
        ELSE LET shoot_time == IF FloatOk(parts[2])
                               THEN FloatVal(parts[2])
                               ELSE clk + DEFAULT_DELAY_SEC
                 prefix == IF Len(parts) >= 3 /\ parts[3] # <<>>
                           THEN parts[3]
                           ELSE FILENAME_PREFIX_DEFAULT
             IN  Command(shoot_time, prefix)

\* parse_message that gives up on a timestamp float() rejects
parse_message_strict(data, clk) ==
    LET text == Strip(Decode(data))
        parts == Split(text, ":")
    IN  IF ~StartsWith(text, SHOOT) THEN None
        ELSE IF Len(parts) = 1
        THEN Command(clk + DEFAULT_DELAY_SEC, FILENAME_PREFIX_DEFAULT)
        ELSE IF ~FloatOk(parts[2]) THEN None
        ELSE LET prefix == IF Len(parts) >= 3 /\ parts[3] # <<>>
                           THEN parts[3]
                           ELSE FILENAME_PREFIX_DEFAULT
             IN  Command(FloatVal(parts[2]), prefix)

\* clk is the value time.time() returns inside the call
parse_message(data, clk) ==
    LET text == Strip(Decode(data))
        parts == Split(text, ":")
    IN  IF ~StartsWith(text, SHOOT) THEN None
        ELSE IF Len(parts) = 1
        THEN Command(clk + DEFAULT_DELAY_SEC, FILENAME_PREFIX_DEFAULT)
        ELSE LET shoot_time == IF FloatOk(parts[2])
                               THEN FloatVal(parts[2])
                               ELSE clk + DEFAULT_DELAY_SEC
                 prefix == IF Len(parts) >= 3 /\ parts[3] # <<>>
                           THEN parts[3]
                           ELSE FILENAME_PREFIX_DEFAULT
             IN  Command(shoot_time, prefix)

\* ------------------------------------------------------------------------
\* The controller's serialisation (src/main_trigger.py:8)
\* ------------------------------------------------------------------------
RECURSIVE IntDigits(_)
IntDigits(n) ==
    LET d == <<"0", "1", "2", "3", "4", "5", "6", "7", "8", "9">>
    IN  IF n < 10 THEN <<d[n + 1]>>
        ELSE IntDigits(n \div 10) \o <<d[(n % 10) + 1]>>

\* repr() of a float given in ms: "1.5", "2.0", "0.125"
FormatFloat(t) ==
    LET d == <<"0", "1", "2", "3", "4", "5", "6", "7", "8", "9">>
        f == t % TicksPerSec
        f3 == <<d[(f \div 100) + 1], d[((f \div 10) % 10) + 1], d[(f % 10) + 1]>>
        frac == IF f % 100 = 0 THEN SubSeq(f3, 1, 1)
                ELSE IF f % 10 = 0 THEN SubSeq(f3, 1, 2)
                ELSE f3
    IN  IntDigits(t \div TicksPerSec) \o <<".">> \o frac

\* f"shoot:{shoot_time}:{prefix}"
FormatTrigger(t, prefix) ==
    SHOOT \o <<":">> \o FormatFloat(t) \o <<":">> \o prefix

\* ------------------------------------------------------------------------
\* make_filename (src/listen.py:72-74) and send_ack (src/listen.py:101-110)
\* ------------------------------------------------------------------------
SAVE_DIR ==
    <<"/", "h", "o", "m", "e", "/", "p", "i", "/",
      "c", "a", "p", "t", "u", "r", "e", "s">>
ACK_PORT == 5006

\* datetime.now().strftime("%Y%m%d_%H%M%S_%f"): one token free of '/' and '.'
TS == "<ts>"

\* os.path.join(a, b): an absolute b replaces a
Join(a, b) ==
    IF b # <<>> /\ Head(b) = "/" THEN b
    ELSE IF a = <<>> \/ a[Len(a)] = "/" THEN a \o b
    ELSE a \o <<"/">> \o b

\* os.path.join(SAVE_DIR, f"{prefix}_{ts}.jpg")
make_filename(pfx) ==
    Join(SAVE_DIR, pfx \o <<"_", TS, ".", "j", "p", "g">>)

\* str(e) of the exception subprocess.run raised
ERRTEXT == <<"<error>">>

\* an acknowledgement that says ok whatever happened
send_ack_ok(to_ip, ok, info) ==
    [to |-> to_ip, port |-> ACK_PORT, ok |-> TRUE, info |-> info]

\* the datagram s.sendto(f"{'ok' if ok else 'fail'}:{info}", (to_ip, ACK_PORT))
\* sends
send_ack(to_ip, ok, info) ==
    [to |-> to_ip, port |-> ACK_PORT, ok |-> ok, info |-> info]

\* ------------------------------------------------------------------------
\* _mjpeg_frames (src/listen.py:302-321)
\* ------------------------------------------------------------------------
Bytes == {0, 216, 217, 255}
\* b'\xff\xd8' and b'\xff\xd9'
SOI == <<255, 216>>
EOI == <<255, 217>>

\* bytes.find(pat, from): lowest 0-based index >= from of pat in buf, or -1
Find(buf, pat, from) ==
    LET cands == {i \in from..(Len(buf) - Len(pat)) :
                      SubSeq(buf, i + 1, i + Len(pat)) = pat}
    IN  IF cands = {} THEN -1
        ELSE CHOOSE i \in cands : \A j \in cands : i <= j

\* buf[a:b] with 0-based bounds
Slice(buf, a, b) == SubSeq(buf, a + 1, b)

\* an inner loop that also yields what follows a start marker with no end
ScanIterFlush(buf) ==
    LET start == Find(buf, SOI, 0)
        end == IF start = -1 THEN -1 ELSE Find(buf, EOI, start + 2)
    IN  IF start = -1
        THEN [emit |-> FALSE, frame |-> <<>>, at |-> 0,
              rest |-> <<>>, drop |-> Len(buf)]
        ELSE IF end = -1
        THEN [emit |-> TRUE, frame |-> Slice(buf, start, Len(buf)), at |-> start,
              rest |-> <<>>, drop |-> Len(buf)]
        ELSE [emit |-> TRUE, frame |-> Slice(buf, start, end + 2), at |-> start,
              rest |-> Slice(buf, end + 2, Len(buf)), drop |-> end + 2]

\* an inner loop that yields the buffer from its first byte to the end marker
ScanIterFromZero(buf) ==
    LET start == Find(buf, SOI, 0)
        end == IF start = -1 THEN -1 ELSE Find(buf, EOI, start + 2)
    IN  IF start = -1
        THEN [emit |-> FALSE, frame |-> <<>>, at |-> 0,
              rest |-> <<>>, drop |-> Len(buf)]
        ELSE IF end = -1
        THEN [emit |-> FALSE, frame |-> <<>>, at |-> 0,
              rest |-> IF start > 0 THEN Slice(buf, start, Len(buf)) ELSE buf,
              drop |-> start]
        ELSE [emit |-> TRUE, frame |-> Slice(buf, 0, end + 2), at |-> 0,
              rest |-> Slice(buf, end + 2, Len(buf)), drop |-> end + 2]

\* one iteration of the inner while loop (lines 310-321): emit says whether
\* a frame is yielded (the loop then goes round again; otherwise it breaks),
\* at is the frame's index in buf, rest the new buf, drop the number of
\* bytes removed from the front of buf
ScanIter(buf) ==
    LET start == Find(buf, SOI, 0)
        end == IF start = -1 THEN -1 ELSE Find(buf, EOI, start + 2)
    IN  IF start = -1
        THEN [emit |-> FALSE, frame |-> <<>>, at |-> 0,
              rest |-> <<>>, drop |-> Len(buf)]
        ELSE IF end = -1
        THEN [emit |-> FALSE, frame |-> <<>>, at |-> 0,
              rest |-> IF start > 0 THEN Slice(buf, start, Len(buf)) ELSE buf,
              drop |-> start]
        ELSE [emit |-> TRUE, frame |-> Slice(buf, start, end + 2), at |-> start,
              rest |-> Slice(buf, end + 2, Len(buf)), drop |-> end + 2]

\* ------------------------------------------------------------------------
\* State
\* ------------------------------------------------------------------------
VARIABLES
    \* codec: the datagram, the clock inside the call, how the datagram was
    \* built, the value parse_message returns, and the position
    data, pclk, origin, result, ppc,
    \* codec: the file name main builds from the prefix parse_message returned
    path,
    \* demultiplexer: the source stream as built, bytes read so far, buf, the
    \* offset of buf[0] in the stream, the frames yielded so far with the
    \* offset of each in the stream, and the position
    source, pos, buf, bufOff, frames, frameOff, dpc,
    \* node: position of every thread, holder of _stream_lock, _stream_proc,
    \* state of each handler's rpicam-vid process, state of rpicam-jpeg, the
    \* clock, main's locals shoot_time / prefix, datagrams taken so far, the
    \* capture outcome and the acknowledgements sent
    pc, stream_lock, stream_proc, proc, jpeg, now, shoot_time, prefix,
    received, outcome, acks,
    \* node, trigger loop: main's locals data, from_ip and filename, and the
    \* record of every decodable trigger taken: the clock reading when it was
    \* taken, its sender, what each subprocess.run call for it came to and
    \* the acknowledgements sent for it
    datagram, from_ip, filename, hist,
    \* web: the nodes as the network finds them (reachable or not, host name,
    \* artifacts newest first), the HTTP request, the position of its
    \* handler, the status of the response, the paths the handler gave to
    \* the file system, the requests it made upstream, and index's pis_data
    nodes, request, wpc, status, touched, fetched, pis_data,
    \* controller (main_trigger.py): the clock, shoot_time, msg, the
    \* datagrams handed to sock.sendto in order, and the position of the
    \* script
    ctl_clock, ctl_shoot_time, msg, sent, cpc

parseVars == <<data, pclk, origin, result, ppc, path>>
demuxVars == <<source, pos, buf, bufOff, frames, frameOff, dpc>>
triggerVars == <<datagram, from_ip, filename, hist>>
nodeVars == <<pc, stream_lock, stream_proc, proc, jpeg, now, shoot_time,
              prefix, received, outcome, acks, triggerVars>>
webVars == <<nodes, request, wpc, status, touched, fetched, pis_data>>
ctlVars == <<ctl_clock, ctl_shoot_time, msg, sent, cpc>>
vars == <<parseVars, demuxVars, nodeVars, webVars, ctlVars>>

SeqsUpTo(S, n) == UNION {[1..k -> S] : k \in 0..n}

\* ------------------------------------------------------------------------
\* Codec specification: parse_message applied to bounded datagrams
\* ------------------------------------------------------------------------
\* target instants (ms) the controller serialises
TriggerTimes == {0, 300, 1120, 2000}
\* prefixes a trigger carries: non-empty tokens without ':' or whitespace
PrefixTokens ==
    {<<"a">>, <<"a", "b">>, <<"1">>, FILENAME_PREFIX_DEFAULT,
     <<".", ".", "/", "x">>, <<"/", "x">>, <<"s", "/", "x">>}
\* timestamp fields float() rejects
NonNumericFields ==
    {<<>>, <<"x">>, <<"1", "x">>, <<".">>, <<"1", ".", "2", ".", "3">>, <<" ">>}
\* clock readings inside parse_message
ParseClocks == {0, 1000}
RawLeads == {<<>>, <<" ">>, <<BADBYTE>>, <<"x">>}
RawHeads == {SHOOT, <<"s", "h", "o", "t">>, <<"S", "h", "o", "o", "t">>, <<>>}
RawTails == SeqsUpTo({":", "1", ".", "x", " "}, MaxTail)

NoOrigin == [kind |-> "none", num |-> FALSE, t |-> 0, f |-> <<>>,
             pmode |-> "absent", p |-> <<>>]

\* the datagrams of the codec specification with the way each is built:
\*   bare    b"shoot"
\*   fields  b"shoot:<f>", b"shoot:<f>:" or b"shoot:<f>:<p>", where f is
\*           either the serialisation of the instant t (num) or a field
\*           float() rejects
\*   raw     lead, head and tail bytes put together
ParseInputs ==
    {<<SHOOT, [NoOrigin EXCEPT !.kind = "bare"]>>}
    \cup
    {<<SHOOT \o <<":">> \o FormatFloat(t) \o
          (IF m = "absent" THEN <<>> ELSE <<":">>) \o
          (IF m = "given" THEN p ELSE <<>>),
       [kind |-> "fields", num |-> TRUE, t |-> t, f |-> FormatFloat(t),
        pmode |-> m, p |-> IF m = "given" THEN p ELSE <<>>]>> :
       t \in TriggerTimes, m \in {"absent", "empty", "given"}, p \in PrefixTokens}
    \cup
    {<<SHOOT \o <<":">> \o f \o
          (IF m = "absent" THEN <<>> ELSE <<":">>) \o
          (IF m = "given" THEN p ELSE <<>>),
       [kind |-> "fields", num |-> FALSE, t |-> 0, f |-> f,
        pmode |-> m, p |-> IF m = "given" THEN p ELSE <<>>]>> :
       f \in NonNumericFields, m \in {"absent", "empty", "given"}, p \in PrefixTokens}
    \cup
    {<<l \o h \o tl, [NoOrigin EXCEPT !.kind = "raw"]>> :
       l \in RawLeads, h \in RawHeads, tl \in RawTails}

ParseIdle ==
    /\ data = <<>>
    /\ pclk = 0
    /\ origin = NoOrigin
    /\ result = None
    /\ ppc = "off"
    /\ path = <<>>

InitParse ==
    /\ \E in \in ParseInputs : data = in[1] /\ origin = in[2]
    /\ pclk \in ParseClocks
    /\ result = None
    /\ ppc = "call"
    /\ path = <<>>

\* parsed = parse_message(data)   (src/listen.py:433)
Parse ==
    /\ ppc = "call"
    /\ result' = parse_message(data, pclk)
    /\ ppc' = "done"
    /\ UNCHANGED <<data, pclk, origin, path>>
    /\ UNCHANGED <<nodeVars, demuxVars, webVars, ctlVars>>

\* shoot_time, prefix = parsed; ...; filename = make_filename(prefix)
\* (src/listen.py:437-448)
MakeFilename ==
    /\ ppc = "done"
    /\ result.some
    /\ path' = make_filename(result.p)
    /\ ppc' = "named"
    /\ UNCHANGED <<data, pclk, origin, result>>
    /\ UNCHANGED <<nodeVars, demuxVars, webVars, ctlVars>>

\* ------------------------------------------------------------------------
\* Demultiplexer specification: _mjpeg_frames on bounded byte streams
\* ------------------------------------------------------------------------
HasStart(s) == Find(s, SOI, 0) # -1

\* filler bytes in front of the first span: no start marker among them
Fillers ==
    {s \in {<<>>, <<0>>, <<255>>, <<217, 255>>} : ~HasStart(s)}

\* well-formed spans: FF D8, a body, and the first FF D9 at or after index 2
\* closing the span
Spans ==
    {s \in {SOI \o b \o EOI : b \in {<<>>, <<0>>, <<217>>, <<255, 216>>}} :
        Find(s, EOI, 2) = Len(s) - 2}

\* what follows the last span: nothing, or a start marker that no end marker
\* follows
DanglingTails ==
    {s \in {SOI \o b : b \in {<<>>, <<0>>, <<255>>}} : Find(s, EOI, 2) = -1}

RECURSIVE Flatten(_)
Flatten(ss) == IF ss = <<>> THEN <<>> ELSE Head(ss) \o Flatten(Tail(ss))

\* the byte stream rpicam-vid writes to its stdout
Stream == source.filler \o Flatten(source.spans) \o source.tail

DemuxIdle ==
    /\ source = [filler |-> <<>>, spans |-> <<>>, tail |-> <<>>]
    /\ pos = 0
    /\ buf = <<>>
    /\ bufOff = 0
    /\ frames = <<>>
    /\ frameOff = <<>>
    /\ dpc = "off"

InitDemux ==
    /\ source \in [filler : Fillers, spans : SeqsUpTo(Spans, MaxSpans),
                   tail : {<<>>} \cup DanglingTails]
    /\ pos = 0
    /\ buf = <<>>
    /\ bufOff = 0
    /\ frames = <<>>
    /\ frameOff = <<>>
    /\ dpc = "read"

\* chunk = proc.stdout.read(65536) returns a non-empty chunk; buf += chunk
DemuxRead ==
    /\ dpc = "read"
    /\ pos < Len(Stream)
    /\ \E n \in 1..(Len(Stream) - pos) :
          /\ buf' = buf \o SubSeq(Stream, pos + 1, pos + n)
          /\ pos' = pos + n
    /\ dpc' = "scan"
    /\ UNCHANGED <<source, bufOff, frames, frameOff>>
    /\ UNCHANGED <<nodeVars, parseVars, webVars, ctlVars>>

\* the read at end of stream returns b"": break, the generator ends
DemuxEof ==
    /\ dpc = "read"
    /\ pos = Len(Stream)
    /\ dpc' = "done"
    /\ UNCHANGED <<source, pos, buf, bufOff, frames, frameOff>>
    /\ UNCHANGED <<nodeVars, parseVars, webVars, ctlVars>>

\* an inner loop without its break statements
AfterScanNoBreak(r) == "scan"

\* where an iteration of the inner loop leads: round again after a yield,
\* out to the next read after a break (lines 312-321)
AfterScan(r) == IF r.emit THEN "scan" ELSE "read"

\* one iteration of the inner while loop
DemuxScan ==
    /\ dpc = "scan"
    /\ LET r == ScanIter(buf)
       IN  /\ frames' = IF r.emit THEN Append(frames, r.frame) ELSE frames
           /\ frameOff' = IF r.emit THEN Append(frameOff, bufOff + r.at)
                          ELSE frameOff
           /\ buf' = r.rest
           /\ bufOff' = bufOff + r.drop
           /\ dpc' = AfterScan(r)
    /\ UNCHANGED <<source, pos>>
    /\ UNCHANGED <<nodeVars, parseVars, webVars, ctlVars>>

\* ------------------------------------------------------------------------
\* Web specification: artifact fetch on the node (src/listen.py:359-366),
\* the standalone viewer (src/viewer.py:158-166) and the central proxy
\* (src/viewer_central.py:425-438), and the central index
\* (src/viewer_central.py:23-30, 408-422)
\* ------------------------------------------------------------------------
PI_IPS == <<"192.168.0.3", "192.168.0.2", "192.168.0.4">>
PI_PORT == 8080
\* socket.gethostname() of each configured node
Hostnames == <<"pi3", "pi2", "pi4">>

\* artifacts a node may hold, and the listings /images.json may return
ImgA == <<"a", ".", "j", "p", "g">>
ImgB == <<"b", ".", "j", "p", "g">>
ImgC == <<"c", ".", "j", "p", "g">>
Listings == {<<>>, <<ImgA>>, <<ImgB, ImgA>>}

\* names a client asks for
RequestNames ==
    {ImgA, ImgB, ImgC,
     <<".", ".", "/">> \o ImgA,
     <<"s", "/">> \o ImgA,
     <<"/">> \o ImgA,
     <<".", ".">>,
     <<"a", ".", ".", "j", "p", "g">>}

\* "/" in filename, ".." in filename
HasSlash(name) == \E i \in 1..Len(name) : name[i] = "/"
HasDotDot(name) ==
    \E i \in 1..(Len(name) - 1) : name[i] = "." /\ name[i + 1] = "."

\* a check for "/" alone
TraversalSlashOnly(name) == HasSlash(name)

\* if "/" in filename or ".." in filename: abort(400)
Traversal(name) == HasSlash(name) \/ HasDotDot(name)

\* the artifacts in SAVE_DIR of the node with 0-based index i
FilesOf(i) == {nodes[i + 1].images[k] : k \in 1..Len(nodes[i + 1].images)}

\* the status a node's serve_image answers a request for name with
ServeStatus(name, files) ==
    IF Traversal(name) THEN 400
    ELSE IF name \notin files THEN 404
    ELSE 200

NoRequest == [svc |-> "none", idx |-> 0, name |-> <<>>]

\* pi_idx of a proxy request: <int:pi_idx> takes the non-negative integers
ProxyIndexes == 0..Len(PI_IPS)

Requests ==
    {[svc |-> v, idx |-> 0, name |-> n] :
        v \in {"node", "viewer"}, n \in RequestNames}
    \cup
    {[svc |-> "central", idx |-> i, name |-> n] :
        i \in ProxyIndexes, n \in RequestNames}
    \cup
    {[svc |-> "index", idx |-> 0, name |-> <<>>]}

WebIdle ==
    /\ nodes = <<>>
    /\ request = NoRequest
    /\ wpc = "off"
    /\ status = 0
    /\ touched = {}
    /\ fetched = <<>>
    /\ pis_data = <<>>

InitWeb ==
    /\ \E u \in [1..Len(PI_IPS) -> BOOLEAN],
          l \in [1..Len(PI_IPS) -> Listings] :
          nodes = [i \in 1..Len(PI_IPS) |->
                      [up |-> u[i], hostname |-> Hostnames[i],
                       images |-> l[i]]]
    /\ request \in Requests
    /\ wpc = "call"
    /\ status = 0
    /\ touched = {}
    /\ fetched = <<>>
    /\ pis_data = <<>>

\* ---- serve_image of listen.py and of viewer.py ----

\* if "/" in filename or ".." in filename: abort(400)
ServeCheck ==
    /\ wpc = "call"
    /\ request.svc \in {"node", "viewer"}
    /\ IF Traversal(request.name)
       THEN status' = 400 /\ wpc' = "done"
       ELSE status' = status /\ wpc' = "isfile"
    /\ UNCHANGED <<nodes, request, touched, fetched, pis_data>>
    /\ UNCHANGED <<nodeVars, parseVars, demuxVars, ctlVars>>

\* path = os.path.join(SAVE_DIR, filename);
\* if not os.path.isfile(path): abort(404)
ServeIsFile ==
    /\ wpc = "isfile"
    /\ touched' = touched \cup {Join(SAVE_DIR, request.name)}
    /\ IF request.name \in FilesOf(0)
       THEN status' = status /\ wpc' = "send"
       ELSE status' = 404 /\ wpc' = "done"
    /\ UNCHANGED <<nodes, request, fetched, pis_data>>
    /\ UNCHANGED <<nodeVars, parseVars, demuxVars, ctlVars>>

\* return send_file(path, mimetype="image/jpeg")
ServeSend ==
    /\ wpc = "send"
    /\ touched' = touched \cup {Join(SAVE_DIR, request.name)}
    /\ status' = 200
    /\ wpc' = "done"
    /\ UNCHANGED <<nodes, request, fetched, pis_data>>
    /\ UNCHANGED <<nodeVars, parseVars, demuxVars, ctlVars>>

\* ---- proxy_image of viewer_central.py ----

\* if pi_idx < 0 or pi_idx >= len(PI_IPS): abort(400)
\* if "/" in filename or ".." in filename: abort(400)
ProxyCheck ==
    /\ wpc = "call"
    /\ request.svc = "central"
    /\ IF request.idx < 0 \/ request.idx >= Len(PI_IPS)
       THEN status' = 400 /\ wpc' = "done"
       ELSE IF Traversal(request.name)
       THEN status' = 400 /\ wpc' = "done"
       ELSE status' = status /\ wpc' = "urlopen"
    /\ UNCHANGED <<nodes, request, touched, fetched, pis_data>>
    /\ UNCHANGED <<nodeVars, parseVars, demuxVars, ctlVars>>

\* urllib.request.urlopen(url, timeout=TIMEOUT) on
\* http://{ip}:{PI_PORT}/img/{filename}: the node's data is passed on; a
\* node that cannot be reached, and a status other than 200 (HTTPError),
\* end in except Exception: abort(502)
ProxyUrlopen ==
    /\ wpc = "urlopen"
    /\ fetched' = Append(fetched, [ip |-> PI_IPS[request.idx + 1],
                                   port |-> PI_PORT, name |-> request.name])
    /\ LET node == nodes[request.idx + 1]
           answer == ServeStatus(request.name, FilesOf(request.idx))
       IN  status' = IF node.up /\ answer = 200 THEN 200 ELSE 502
    /\ wpc' = "done"
    /\ UNCHANGED <<nodes, request, touched, pis_data>>
    /\ UNCHANGED <<nodeVars, parseVars, demuxVars, ctlVars>>

\* ---- fetch_pi_images and index of viewer_central.py ----

NoResult == [ok |-> FALSE, hostname |-> "", images |-> <<>>]

\* the node's /images.json, or None on a timeout or any other exception;
\* i is the 1-based position of the node in PI_IPS
fetch_pi_images(i) ==
    IF nodes[i].up
    THEN [ok |-> TRUE, hostname |-> nodes[i].hostname,
          images |-> nodes[i].images]
    ELSE NoResult

\* a loop body that leaves out the nodes that did not answer
index_step_skip(acc, ip, res) ==
    IF res = NoResult THEN acc
    ELSE Append(acc, [ip |-> ip, online |-> TRUE,
                      hostname |-> res.hostname, images |-> res.images])

\* the body of the loop of index: result = fetch_pi_images(ip) has been
\* called; pis_data.append(...)
index_step(acc, ip, res) ==
    IF res = NoResult
    THEN Append(acc, [ip |-> ip, online |-> FALSE])
    ELSE Append(acc, [ip |-> ip, online |-> TRUE,
                      hostname |-> res.hostname, images |-> res.images])

\* index() is entered: pis_data = []
IndexEnter ==
    /\ wpc = "call"
    /\ request.svc = "index"
    /\ pis_data' = <<>>
    /\ fetched' = <<>>
    /\ wpc' = "loop"
    /\ UNCHANGED <<nodes, request, status, touched>>
    /\ UNCHANGED <<nodeVars, parseVars, demuxVars, ctlVars>>

\* one iteration of for ip in PI_IPS
IndexFetch ==
    /\ wpc = "loop"
    /\ Len(fetched) < Len(PI_IPS)
    /\ LET i == Len(fetched) + 1
       IN  /\ fetched' = Append(fetched, [ip |-> PI_IPS[i], port |-> PI_PORT,
                                          name |-> <<>>])
           /\ pis_data' = index_step(pis_data, PI_IPS[i], fetch_pi_images(i))
    /\ UNCHANGED <<nodes, request, wpc, status, touched>>
    /\ UNCHANGED <<nodeVars, parseVars, demuxVars, ctlVars>>

\* return render_template_string(HTML, pis_json=json.dumps(pis_data))
IndexRender ==
    /\ wpc = "loop"
    /\ Len(fetched) = Len(PI_IPS)
    /\ status' = 200
    /\ wpc' = "done"
    /\ UNCHANGED <<nodes, request, touched, fetched, pis_data>>
    /\ UNCHANGED <<nodeVars, parseVars, demuxVars, ctlVars>>

\* ------------------------------------------------------------------------
\* Node specification: main() and the /stream handlers of one node
\* ------------------------------------------------------------------------
\* the trigger loop thread and the request handler threads
Main == 0
Handlers == 1..NumHandlers
Threads == {Main} \cup Handlers

\* _stream_lock is free; _stream_proc is None
Free == -1
NoProc == 0

\* busy_wait_until: spin below 10 ms, sleep to 5 ms before the target
SPIN_MARGIN == 10
SLEEP_SLACK == 5
\* _stream_proc.wait(timeout=2)
KILL_WAIT_TIMEOUT == 2000

\* the datagrams a node receives: the controller's trigger for the instant
\* 300 ms, the bare command, a trigger whose timestamp is nan, and a foreign
\* datagram
Datagrams ==
    {FormatTrigger(300, <<"a">>),
     SHOOT,
     SHOOT \o <<":", "n", "a", "n">>,
     <<"p", "i", "n", "g">>}
\* addr[0] of a datagram: the controller's host, or another host of the LAN
Senders == {"controller", "other"}
NoSender == "none"
\* the datagrams with their senders: the controller sends what
\* main_trigger.py serialises
Deliveries ==
    {<<d, IF d = FormatTrigger(300, <<"a">>) THEN "controller" ELSE "other">> :
        d \in Datagrams}
\* clock readings (ms) at which recvfrom returns a datagram: at start-up,
\* and at a later instant by which a trigger taken at start-up is finished
TakeTimes == {0, 4000}

NodeIdle ==
    /\ pc = [t \in Threads |-> "off"]
    /\ stream_lock = Free
    /\ stream_proc = NoProc
    /\ proc = [h \in Handlers |-> "none"]
    /\ jpeg = "idle"
    /\ now = 0
    /\ shoot_time = 0
    /\ prefix = <<>>
    /\ received = 0
    /\ outcome = "none"
    /\ acks = <<>>
    /\ datagram = <<>>
    /\ from_ip = NoSender
    /\ filename = <<>>
    /\ hist = <<>>

InitNode ==
    /\ pc = [t \in Threads |-> IF t = Main THEN "recv" ELSE "idle"]
    /\ stream_lock = Free
    /\ stream_proc = NoProc
    /\ proc = [h \in Handlers |-> "none"]
    /\ jpeg = "idle"
    /\ now = 0
    /\ shoot_time = 0
    /\ prefix = <<>>
    /\ received = 0
    /\ outcome = "none"
    /\ acks = <<>>
    /\ datagram = <<>>
    /\ from_ip = NoSender
    /\ filename = <<>>
    /\ hist = <<>>

\* ---- _kill_stream (src/listen.py:43-53), run by thread t ----

\* poll() is None on the registered process
StreamAlive == stream_proc # NoProc /\ proc[stream_proc] = "alive"

\* where _kill_stream returns to: subprocess.run in capture_jpeg (main),
\* subprocess.Popen in generate (a handler)
AfterKill(t) == IF t = Main THEN "run" ELSE "popen"

\* with _stream_lock: if _stream_proc and _stream_proc.poll() is None:
\* _stream_proc.terminate().  With no live registered process the block is
\* left at once and the lock released; otherwise the thread goes on to wait
\* for the process, holding the lock.
KillEnter(t) ==
    /\ pc[t] = "ks_enter"
    /\ stream_lock = Free
    /\ IF StreamAlive
       THEN /\ stream_lock' = t
            /\ pc' = [pc EXCEPT ![t] = "ks_wait"]
       ELSE /\ stream_lock' = Free
            /\ pc' = [pc EXCEPT ![t] = AfterKill(t)]
    /\ UNCHANGED <<stream_proc, proc, jpeg, now, shoot_time, prefix,
                   received, outcome, acks>>
    /\ UNCHANGED <<triggerVars, parseVars, demuxVars, webVars, ctlVars>>

\* a wait() with no timeout and no kill(): it returns when the process has
\* exited
KillWaitNoTimeout(t) ==
    /\ pc[t] = "ks_wait"
    /\ proc[stream_proc] = "dead"
    /\ stream_proc' = NoProc
    /\ stream_lock' = Free
    /\ pc' = [pc EXCEPT ![t] = AfterKill(t)]
    /\ UNCHANGED <<proc, jpeg, now, shoot_time, prefix, received, outcome,
                   acks>>
    /\ UNCHANGED <<triggerVars, parseVars, demuxVars, webVars, ctlVars>>

\* _stream_proc.wait(timeout=2), kill() on TimeoutExpired; _stream_proc = None;
\* the lock is released.  The process is gone either way; in the trigger
\* loop the wait takes no time or the whole timeout.
KillWait(t) ==
    /\ pc[t] = "ks_wait"
    /\ proc' = [proc EXCEPT ![stream_proc] = "dead"]
    /\ stream_proc' = NoProc
    /\ \E w \in {0, KILL_WAIT_TIMEOUT} :
          now' = IF t = Main THEN now + w ELSE now
    /\ stream_lock' = Free
    /\ pc' = [pc EXCEPT ![t] = AfterKill(t)]
    /\ UNCHANGED <<jpeg, shoot_time, prefix, received, outcome, acks>>
    /\ UNCHANGED <<triggerVars, parseVars, demuxVars, webVars, ctlVars>>

\* ---- stream.generate (src/listen.py:372-402), run by handler h ----

\* a /stream request arrives; the generator starts by calling _kill_stream
StreamRequest(h) ==
    /\ pc[h] = "idle"
    /\ pc' = [pc EXCEPT ![h] = "ks_enter"]
    /\ UNCHANGED <<stream_lock, stream_proc, proc, jpeg, now, shoot_time,
                   prefix, received, outcome, acks>>
    /\ UNCHANGED <<triggerVars, parseVars, demuxVars, webVars, ctlVars>>

\* proc = subprocess.Popen(cmd, ...) starts rpicam-vid
StreamPopen(h) ==
    /\ pc[h] = "popen"
    /\ proc' = [proc EXCEPT ![h] = "alive"]
    /\ pc' = [pc EXCEPT ![h] = "register"]
    /\ UNCHANGED <<stream_lock, stream_proc, jpeg, now, shoot_time, prefix,
                   received, outcome, acks>>
    /\ UNCHANGED <<triggerVars, parseVars, demuxVars, webVars, ctlVars>>

\* Popen raises (the utility cannot be executed): the generator ends
StreamPopenFails(h) ==
    /\ pc[h] = "popen"
    /\ pc' = [pc EXCEPT ![h] = "idle"]
    /\ UNCHANGED <<stream_lock, stream_proc, proc, jpeg, now, shoot_time,
                   prefix, received, outcome, acks>>
    /\ UNCHANGED <<triggerVars, parseVars, demuxVars, webVars, ctlVars>>

\* with _stream_lock: _stream_proc = proc   (lines 388-389)
Register(h) ==
    /\ pc[h] = "register"
    /\ stream_lock = Free
    /\ stream_proc' = h
    /\ pc' = [pc EXCEPT ![h] = "streaming"]
    /\ UNCHANGED <<stream_lock, proc, jpeg, now, shoot_time, prefix,
                   received, outcome, acks>>
    /\ UNCHANGED <<triggerVars, parseVars, demuxVars, webVars, ctlVars>>

\* a finally block that lets the process run on
StreamEndNoTerminate(h) ==
    /\ pc[h] = "streaming"
    /\ pc' = [pc EXCEPT ![h] = "fin_clear"]
    /\ UNCHANGED <<stream_lock, stream_proc, proc, jpeg, now, shoot_time,
                   prefix, received, outcome, acks>>
    /\ UNCHANGED <<triggerVars, parseVars, demuxVars, webVars, ctlVars>>

\* the for loop over _mjpeg_frames(proc) ends (the process closed its
\* output, or the requester went away and the generator is closed at its
\* yield) and the finally block runs: proc.terminate();
\* proc.wait(timeout=2), kill() on TimeoutExpired
StreamEnd(h) ==
    /\ pc[h] = "streaming"
    /\ proc' = [proc EXCEPT ![h] = "dead"]
    /\ pc' = [pc EXCEPT ![h] = "fin_clear"]
    /\ UNCHANGED <<stream_lock, stream_proc, jpeg, now, shoot_time, prefix,
                   received, outcome, acks>>
    /\ UNCHANGED <<triggerVars, parseVars, demuxVars, webVars, ctlVars>>

\* a handle reset whoever owns it
ClearedHandleAlways(h) == NoProc

\* if _stream_proc is proc: _stream_proc = None   (lines 401-402)
ClearedHandle(h) == IF stream_proc = h THEN NoProc ELSE stream_proc

\* a finally block that does not touch _stream_proc
FinallyClearKeeps(h) ==
    /\ pc[h] = "fin_clear"
    /\ stream_lock = Free
    /\ proc' = [proc EXCEPT ![h] = IF @ = "dead" THEN "none" ELSE @]
    /\ pc' = [pc EXCEPT ![h] = "idle"]
    /\ UNCHANGED <<stream_lock, stream_proc, jpeg, now, shoot_time, prefix,
                   received, outcome, acks>>
    /\ UNCHANGED <<triggerVars, parseVars, demuxVars, webVars, ctlVars>>

\* with _stream_lock: if _stream_proc is proc: _stream_proc = None
\* (lines 400-402); the generator ends and the object of its terminated
\* process is dropped
FinallyClear(h) ==
    /\ pc[h] = "fin_clear"
    /\ stream_lock = Free
    /\ stream_proc' = ClearedHandle(h)
    /\ proc' = [proc EXCEPT ![h] = IF @ = "dead" THEN "none" ELSE @]
    /\ pc' = [pc EXCEPT ![h] = "idle"]
    /\ UNCHANGED <<stream_lock, jpeg, now, shoot_time, prefix, received,
                   outcome, acks>>
    /\ UNCHANGED <<triggerVars, parseVars, demuxVars, webVars, ctlVars>>

\* rpicam-vid exits on its own (camera busy, crash)
ProcExit(h) ==
    /\ proc[h] = "alive"
    /\ proc' = [proc EXCEPT ![h] = "dead"]
    /\ UNCHANGED <<pc, stream_lock, stream_proc, jpeg, now, shoot_time,
                   prefix, received, outcome, acks>>
    /\ UNCHANGED <<triggerVars, parseVars, demuxVars, webVars, ctlVars>>

\* ---- busy_wait_until (src/listen.py:62-69) ----

\* a wait that returns once the target is within the spin margin
BusyWaitReturnsEarly(remaining) == remaining <= SPIN_MARGIN

\* if remaining <= 0: return
BusyWaitReturns(remaining) == remaining <= 0

\* if remaining > 0.01: time.sleep(remaining - 0.005)
BusyWaitSleeps(remaining) == remaining > SPIN_MARGIN

\* a loop that gives up a trigger whose target instant is past
AfterWaitDropsLate(remaining) == IF remaining < 0 THEN "recv" ELSE "settle"

\* where main goes when busy_wait_until returns, however far in the past the
\* target is: the settle sleep (src/listen.py:443-446)
AfterWait(remaining) == "settle"

\* ---- main (src/listen.py:431-456), run by the trigger loop ----

\* a loop that takes every datagram for a trigger
IgnoredNever(parsed) == FALSE

\* if not parsed: continue
Ignored(parsed) == ~parsed.some

\* data, addr = sock.recvfrom(1024); parsed = parse_message(data);
\* if not parsed: continue; shoot_time, prefix = parsed; from_ip = addr[0]
MainRecv ==
    /\ pc[Main] = "recv"
    /\ received < MaxDatagrams
    /\ \E dl \in Deliveries, clk \in TakeTimes :
          LET parsed == parse_message(dl[1], clk)
          IN  /\ clk >= now
              /\ now' = clk
              /\ datagram' = dl[1]
              /\ IF Ignored(parsed)
                 THEN UNCHANGED <<shoot_time, prefix, pc, from_ip, hist>>
                 ELSE /\ shoot_time' = parsed.t
                      /\ prefix' = parsed.p
                      /\ from_ip' = dl[2]
                      /\ hist' = Append(hist, [taken |-> clk, from |-> dl[2],
                                               runs |-> <<>>, acks |-> <<>>])
                      /\ pc' = [pc EXCEPT ![Main] = "wait"]
    /\ received' = received + 1
    /\ UNCHANGED <<stream_lock, stream_proc, proc, jpeg, outcome, acks,
                   filename>>
    /\ UNCHANGED <<parseVars, demuxVars, webVars, ctlVars>>

\* one iteration of the loop of busy_wait_until(shoot_time), on the clock
\* reading now: the call returns, or sleeps to SLEEP_SLACK before the target
\* (a sleep may overshoot), or goes round again, the next reading being
\* 1 ms later.  With a nan target neither comparison holds and the loop
\* spins for ever.
MainBusyWait ==
    /\ pc[Main] = "wait"
    /\ IF shoot_time = NaN
       THEN UNCHANGED <<now, pc>>
       ELSE LET remaining == shoot_time - now
            IN  IF BusyWaitReturns(remaining)
                THEN /\ now' = now
                     /\ pc' = [pc EXCEPT ![Main] = AfterWait(remaining)]
                ELSE IF BusyWaitSleeps(remaining)
                THEN /\ \E o \in {0, MaxOversleep} :
                           now' = now + (remaining - SLEEP_SLACK) + o
                     /\ UNCHANGED pc
                ELSE /\ now' = now + 1
                     /\ UNCHANGED pc
    /\ UNCHANGED <<stream_lock, stream_proc, proc, jpeg, shoot_time, prefix,
                   received, outcome, acks>>
    /\ UNCHANGED <<triggerVars, parseVars, demuxVars, webVars, ctlVars>>

\* time.sleep(TRIGGER_SETTLE_SEC); filename = make_filename(prefix);
\* capture_jpeg(filename) is entered and calls _kill_stream
MainSettle ==
    /\ pc[Main] = "settle"
    /\ \E o \in {0, MaxOversleep} : now' = now + TRIGGER_SETTLE_SEC + o
    /\ filename' = make_filename(prefix)
    /\ pc' = [pc EXCEPT ![Main] = "ks_enter"]
    /\ UNCHANGED <<stream_lock, stream_proc, proc, jpeg, shoot_time, prefix,
                   received, outcome, acks, datagram, from_ip, hist>>
    /\ UNCHANGED <<parseVars, demuxVars, webVars, ctlVars>>

\* a capture started with Popen and not waited for: the loop is back at
\* recvfrom while rpicam-jpeg runs
MainRunDetached ==
    /\ pc[Main] = "run"
    /\ jpeg' = "running"
    /\ hist' = [hist EXCEPT ![Len(hist)].runs = Append(@, "detached")]
    /\ outcome' = "ok"
    /\ pc' = [pc EXCEPT ![Main] = "ack"]
    /\ UNCHANGED <<stream_lock, stream_proc, proc, now, shoot_time, prefix,
                   received, acks, datagram, from_ip, filename>>
    /\ UNCHANGED <<parseVars, demuxVars, webVars, ctlVars>>

\* subprocess.run(cmd, check=True) starts rpicam-jpeg
MainRun ==
    /\ pc[Main] = "run"
    /\ jpeg' = "running"
    /\ pc' = [pc EXCEPT ![Main] = "running"]
    /\ UNCHANGED <<stream_lock, stream_proc, proc, now, shoot_time, prefix,
                   received, outcome, acks>>
    /\ UNCHANGED <<triggerVars, parseVars, demuxVars, webVars, ctlVars>>

\* what the subprocess.run calls for the trigger in hand came to
Ran(h, r) == [h EXCEPT ![Len(h)].runs = Append(@, r)]
\* the acknowledgements sent for the trigger in hand
Acked(h, a) == [h EXCEPT ![Len(h)].acks = Append(@, a)]

\* subprocess.run raises before the utility runs (it cannot be executed):
\* OSError, caught by except Exception
MainRunFails ==
    /\ pc[Main] = "run"
    /\ outcome' = "fail"
    /\ hist' = Ran(hist, "oserror")
    /\ pc' = [pc EXCEPT ![Main] = "ack"]
    /\ UNCHANGED <<stream_lock, stream_proc, proc, jpeg, now, shoot_time,
                   prefix, received, acks, datagram, from_ip, filename>>
    /\ UNCHANGED <<parseVars, demuxVars, webVars, ctlVars>>

\* time (ms) rpicam-jpeg takes
CaptureTimes == {500}
\* exit statuses of rpicam-jpeg
ExitCodes == {"exit0", "exit1"}

\* subprocess.run(cmd) without check=True: no exit status raises
RunOutcomeUnchecked(rc) == "ok"

\* subprocess.run(cmd, check=True): a non-zero exit status raises
\* CalledProcessError, caught by except Exception
RunOutcome(rc) == IF rc = "exit0" THEN "ok" ELSE "fail"

\* a capture that starts the streams it preempted again when it is over
MainCaptureExitResumes ==
    /\ pc[Main] = "running"
    /\ jpeg' = "idle"
    /\ proc' = [h \in Handlers |->
                  IF pc[h] = "streaming" /\ proc[h] = "dead" THEN "alive"
                  ELSE proc[h]]
    /\ \E rc \in ExitCodes :
          /\ outcome' = RunOutcome(rc)
          /\ hist' = [hist EXCEPT ![Len(hist)].runs = Append(@, rc)]
    /\ \E d \in CaptureTimes : now' = now + d
    /\ pc' = [pc EXCEPT ![Main] = "ack"]
    /\ UNCHANGED <<stream_lock, stream_proc, shoot_time, prefix,
                   received, acks, datagram, from_ip, filename>>
    /\ UNCHANGED <<parseVars, demuxVars, webVars, ctlVars>>

\* rpicam-jpeg exits and subprocess.run returns or raises
MainCaptureExit ==
    /\ pc[Main] = "running"
    /\ jpeg' = "idle"
    /\ \E rc \in ExitCodes :
          /\ outcome' = RunOutcome(rc)
          /\ hist' = Ran(hist, rc)
    /\ \E d \in CaptureTimes : now' = now + d
    /\ pc' = [pc EXCEPT ![Main] = "ack"]
    /\ UNCHANGED <<stream_lock, stream_proc, proc, shoot_time, prefix,
                   received, acks, datagram, from_ip, filename>>
    /\ UNCHANGED <<parseVars, demuxVars, webVars, ctlVars>>

\* send_ack(from_ip, True, filename) in the try block, or
\* send_ack(from_ip, False, str(e)) in the except block; then back to
\* recvfrom
MainAck ==
    /\ pc[Main] = "ack"
    /\ LET ack == send_ack(from_ip, outcome = "ok",
                           IF outcome = "ok" THEN filename ELSE ERRTEXT)
       IN  /\ acks' = Append(acks, ack)
           /\ hist' = Acked(hist, ack)
    /\ outcome' = "none"
    /\ pc' = [pc EXCEPT ![Main] = "recv"]
    /\ UNCHANGED <<stream_lock, stream_proc, proc, jpeg, now, shoot_time,
                   prefix, received, datagram, from_ip, filename>>
    /\ UNCHANGED <<parseVars, demuxVars, webVars, ctlVars>>

\* ------------------------------------------------------------------------
\* Controller specification: main_trigger.py, run once
\* ------------------------------------------------------------------------
ips == <<"192.168.0.4", "192.168.0.102", "192.168.0.103">>
UDP_PORT == 5005
\* shoot_time = time.time() + 0.3
TRIGGER_LEAD == 300

\* readings (ms) of time.time() when the script starts
CtlClocks ==
    {TicksPerSec * sec + ms : sec \in 0..3, ms \in {0, 1, 50, 120, 700, 999}}
\* time (ms) that passes between two calls of sock.sendto
CtlLags == {0, 1}

CtlIdle ==
    /\ ctl_clock = 0
    /\ ctl_shoot_time = 0
    /\ msg = <<>>
    /\ sent = <<>>
    /\ cpc = "off"

InitCtl ==
    /\ ctl_clock \in CtlClocks
    /\ ctl_shoot_time = 0
    /\ msg = <<>>
    /\ sent = <<>>
    /\ cpc = "build"

\* shoot_time = time.time() + 0.3;
\* msg = f"shoot:{shoot_time}:capture".encode()
CtlBuild ==
    /\ cpc = "build"
    /\ ctl_shoot_time' = ctl_clock + TRIGGER_LEAD
    /\ msg' = FormatTrigger(ctl_clock + TRIGGER_LEAD,
                            <<"c", "a", "p", "t", "u", "r", "e">>)
    /\ cpc' = "send"
    /\ UNCHANGED <<ctl_clock, sent>>
    /\ UNCHANGED <<nodeVars, parseVars, demuxVars, webVars>>

\* a loop that is left after its first sendto
CtlSendtoOnce ==
    /\ cpc = "send"
    /\ Len(sent) < Len(ips)
    /\ sent' = Append(sent, [to |-> ips[Len(sent) + 1], port |-> UDP_PORT,
                             payload |-> msg])
    /\ \E d \in CtlLags : ctl_clock' = ctl_clock + d
    /\ cpc' = "done"
    /\ UNCHANGED <<ctl_shoot_time, msg>>
    /\ UNCHANGED <<nodeVars, parseVars, demuxVars, webVars>>

\* for ip in ips: sock.sendto(msg, (ip, UDP_PORT)): one iteration.  The
\* datagram is handed to the network and the call returns.
CtlSendto ==
    /\ cpc = "send"
    /\ Len(sent) < Len(ips)
    /\ sent' = Append(sent, [to |-> ips[Len(sent) + 1], port |-> UDP_PORT,
                             payload |-> msg])
    /\ \E d \in CtlLags : ctl_clock' = ctl_clock + d
    /\ UNCHANGED <<ctl_shoot_time, msg, cpc>>
    /\ UNCHANGED <<nodeVars, parseVars, demuxVars, webVars>>

\* the loop is exhausted; print("Trigger sent to all IPs") and the script
\* ends
CtlExit ==
    /\ cpc = "send"
    /\ Len(sent) = Len(ips)
    /\ cpc' = "done"
    /\ UNCHANGED <<ctl_clock, ctl_shoot_time, msg, sent>>
    /\ UNCHANGED <<nodeVars, parseVars, demuxVars, webVars>>

\* ------------------------------------------------------------------------
\* Specifications
\* ------------------------------------------------------------------------
Init == InitNode /\ ParseIdle /\ DemuxIdle /\ WebIdle /\ CtlIdle

Next ==
    \/ MainRecv
    \/ MainBusyWait
    \/ MainSettle
    \/ MainRun
    \/ MainRunFails
    \/ MainCaptureExit
    \/ MainAck
    \/ \E t \in Threads : KillEnter(t)
    \/ \E t \in Threads : KillWait(t)
    \/ \E h \in Handlers : StreamRequest(h)
    \/ \E h \in Handlers : StreamPopen(h)
    \/ \E h \in Handlers : StreamPopenFails(h)
    \/ \E h \in Handlers : Register(h)
    \/ \E h \in Handlers : StreamEnd(h)
    \/ \E h \in Handlers : FinallyClear(h)
    \/ \E h \in Handlers : ProcExit(h)

Spec == Init /\ [][Next]_vars

\* the steps of thread t that need nothing but the processor; for a handler
\* whose rpicam-vid has exited they include the end of its frame loop:
\* proc.stdout.read returns b"" and _mjpeg_frames breaks (lines 306-308)
Runs(t) ==
    IF t = Main
    THEN \/ MainBusyWait
         \/ MainSettle
         \/ MainRun
         \/ MainRunFails
         \/ MainCaptureExit
         \/ MainAck
         \/ KillWait(t)
    ELSE \/ KillWait(t)
         \/ StreamPopen(t)
         \/ StreamPopenFails(t)
         \/ (proc[t] = "dead" /\ StreamEnd(t))

\* the steps of thread t that acquire _stream_lock
Locks(t) ==
    IF t = Main
    THEN KillEnter(t)
    ELSE \/ KillEnter(t)
         \/ Register(t)
         \/ FinallyClear(t)

\* Scheduling of the node's threads.  The trigger loop and every handler
\* keep running: a step that needs nothing but the processor is taken (WF),
\* the capture utility terminates, and a thread blocked on _stream_lock gets
\* it if it is released again and again (SF).  Datagrams and requests
\* arrive, requesters leave and rpicam-vid exits as they please.
Fairness ==
    \A t \in Threads : WF_vars(Runs(t)) /\ SF_vars(Locks(t))

SpecFair == Spec /\ Fairness

InitP == InitParse /\ NodeIdle /\ DemuxIdle /\ WebIdle /\ CtlIdle

NextP ==
    \/ Parse
    \/ MakeFilename

SpecParse == InitP /\ [][NextP]_vars

InitD == InitDemux /\ NodeIdle /\ ParseIdle /\ WebIdle /\ CtlIdle

NextD ==
    \/ DemuxRead
    \/ DemuxScan
    \/ DemuxEof

SpecDemux == InitD /\ [][NextD]_vars

\* The generator is driven as long as it has not ended: an iteration of the
\* inner loop needs nothing but the processor, and a read returns, with the
\* bytes rpicam-vid wrote or with b"" once it has closed its output.
SpecDemuxFair == SpecDemux /\ WF_vars(NextD)

InitW == InitWeb /\ NodeIdle /\ ParseIdle /\ DemuxIdle /\ CtlIdle

NextW ==
    \/ ServeCheck
    \/ ServeIsFile
    \/ ServeSend
    \/ ProxyCheck
    \/ ProxyUrlopen
    \/ IndexEnter
    \/ IndexFetch
    \/ IndexRender

SpecWeb == InitW /\ [][NextW]_vars

InitC == InitCtl /\ NodeIdle /\ ParseIdle /\ DemuxIdle /\ WebIdle

NextC ==
    \/ CtlBuild
    \/ CtlSendto
    \/ CtlExit

SpecCtl == InitC /\ [][NextC]_vars

\* ------------------------------------------------------------------------
\* Properties
\* ------------------------------------------------------------------------
LiveStreams == {h \in Handlers : proc[h] = "alive"}

\* C1: the camera has at most one consumer at any instant: no rpicam-vid
\* process is alive while rpicam-jpeg is running (so none is started during a
\* still capture either).
C1_OneCameraConsumer == ~(jpeg = "running" /\ LiveStreams # {})

\* C2: when capture_jpeg comes to start the capture utility (after its
\* _kill_stream), every live-stream process of the node has been terminated
\* and the stream handle is none.
C2_CaptureAfterTeardown ==
    pc[Main] = "run" => (LiveStreams = {} /\ stream_proc = NoProc)

\* C3: at most one live-stream process is alive on the node at any instant.
C3_AtMostOneStream == Cardinality(LiveStreams) <= 1

\* C4: a thread that is inside a camera transition - between terminating the
\* previous consumer and having started and registered the new one - holds
\* the camera lock.
C4_CriticalSectionUnderLock ==
    \A t \in Threads :
        pc[t] \in {"ks_wait", "popen", "register", "run"} => stream_lock = t

\* C5: a stream of filler bytes followed by N well-formed spans, divided into
\* reads in any way, yields exactly the N spans as frames, in order.
C5_RoundTrip ==
    (dpc = "done" /\ source.tail = <<>>) => frames = source.spans

\* the start marker at 0-based offset i of the stream has no end marker
\* after it
DanglingAt(i) ==
    /\ SubSeq(Stream, i + 1, i + 2) = SOI
    /\ Find(Stream, EOI, i + 2) = -1

EndsWithEOI(f) == Len(f) >= 2 /\ SubSeq(f, Len(f) - 1, Len(f)) = EOI

\* C6: no frame is emitted for a start marker that no end marker follows:
\* every frame emitted ends with an end marker and none starts at a dangling
\* start marker, so the frames never outnumber the well-formed spans, also
\* after the source has closed.
C6_NoFrameForDanglingStart ==
    /\ \A k \in 1..Len(frames) :
          /\ ~DanglingAt(frameOff[k])
          /\ EndsWithEOI(frames[k])
    /\ Len(frames) <= Len(source.spans)

\* C6 witness: the source closed on a dangling start marker whose bytes are
\* still in buf, after a frame was emitted.
C6_Witness ==
    /\ dpc = "done"
    /\ source.tail # <<>>
    /\ buf # <<>>
    /\ DanglingAt(bufOff)
    /\ Len(frames) >= 1

\* C7: parse_message on shoot:<t>:<p>, t a serialised instant and p a prefix
\* token, returns exactly (t, p); on shoot alone it returns
\* (clock + DEFAULT_DELAY_SEC, FILENAME_PREFIX_DEFAULT).
C7_ParseRecovers ==
    ppc = "done" =>
        /\ (origin.kind = "fields" /\ origin.num /\ origin.pmode = "given")
              => result = Command(origin.t, origin.p)
        /\ origin.kind = "bare"
              => result = Command(pclk + DEFAULT_DELAY_SEC, FILENAME_PREFIX_DEFAULT)

\* C7 witness: the trigger shoot:1.12:ab has been parsed.
C7_Witness ==
    /\ ppc = "done"
    /\ origin.kind = "fields" /\ origin.num /\ origin.pmode = "given"
    /\ origin.t = 1120
    /\ origin.p = <<"a", "b">>
    /\ result.some

\* C8 as stated: parse_message yields None for every datagram whose bytes do
\* not start with shoot.
C8_NoneUnlessBytesStartWithShoot ==
    (ppc = "done" /\ ~StartsWith(data, SHOOT)) => result = None

\* C8 amended: parse_message yields None for every datagram whose text - the
\* bytes without the undecodable ones, stripped of surrounding whitespace -
\* does not start with shoot.
C8_NoneUnlessTextStartsWithShoot ==
    (ppc = "done" /\ ~StartsWith(Strip(Decode(data)), SHOOT)) => result = None

\* C8 witness: a datagram of at least four bytes whose text does not start
\* with shoot has been parsed.
C8_Witness ==
    /\ ppc = "done"
    /\ Len(data) >= 4
    /\ ~StartsWith(Strip(Decode(data)), SHOOT)
    /\ result = None

\* C9: a timestamp field float() rejects yields clock + DEFAULT_DELAY_SEC
\* with the supplied prefix kept, and an empty or absent prefix field yields
\* FILENAME_PREFIX_DEFAULT; a command is returned in both cases.
C9_ParseDegrades ==
    (ppc = "done" /\ origin.kind = "fields") =>
        /\ ~origin.num =>
              result = Command(pclk + DEFAULT_DELAY_SEC,
                               IF origin.pmode = "given" THEN origin.p
                               ELSE FILENAME_PREFIX_DEFAULT)
        /\ (origin.num /\ origin.pmode # "given") =>
              result = Command(origin.t, FILENAME_PREFIX_DEFAULT)

\* C9 witness: shoot:1x:ab, whose timestamp is not a number, has been parsed
\* with its prefix kept.
C9_Witness ==
    /\ ppc = "done"
    /\ origin.kind = "fields" /\ ~origin.num /\ origin.pmode = "given"
    /\ origin.f = <<"1", "x">>
    /\ result.some
    /\ result.p = <<"a", "b">>

\* C10: busy_wait_until(shoot_time) has returned only on a clock reading of
\* at least shoot_time, and the camera is acquired and rpicam-jpeg started no
\* earlier than shoot_time + TRIGGER_SETTLE_SEC.
C10_CaptureNotBeforeSettledTarget ==
    /\ pc[Main] = "settle" => now >= shoot_time
    /\ pc[Main] \in {"ks_enter", "ks_wait", "run", "running"}
          => now >= shoot_time + TRIGGER_SETTLE_SEC

\* C10 witness: rpicam-jpeg is running for a trigger the loop had to wait
\* for, started exactly at shoot_time + TRIGGER_SETTLE_SEC.
C10_Witness ==
    /\ jpeg = "running"
    /\ shoot_time = 300
    /\ now = shoot_time + TRIGGER_SETTLE_SEC

\* the trigger in hand: the last decodable trigger taken
Trigger == hist[Len(hist)]

\* C11: for a trigger taken before its target instant, rpicam-jpeg is
\* started no earlier than the target and less than
\* TRIGGER_SETTLE_SEC + MaxSlack after it, whether or not a live stream is
\* active.
C11_BoundedResponse ==
    (pc[Main] \in {"run", "running"} /\ Trigger.taken < shoot_time) =>
        /\ now >= shoot_time
        /\ now < shoot_time + TRIGGER_SETTLE_SEC + MaxSlack

\* C12: subprocess.run is called at most once for a trigger; the
\* acknowledgement of a trigger says ok exactly if rpicam-jpeg exited with
\* status zero, an ok carries the file name and a fail the error text; once
\* the acknowledgement is sent the loop is back at recvfrom.
C12_OutcomeReported ==
    /\ \A k \in 1..Len(hist) :
          /\ Len(hist[k].runs) <= 1
          /\ \A i \in 1..Len(hist[k].acks) :
                /\ hist[k].runs # <<>>
                /\ hist[k].acks[i].ok <=> (hist[k].runs[1] = "exit0")
                /\ hist[k].acks[i].ok <=> (hist[k].acks[i].info # ERRTEXT)
    /\ (hist # <<>> /\ Trigger.acks # <<>>) => pc[Main] = "recv"

\* C12 witness: a trigger whose capture exited non-zero was answered fail,
\* and the next trigger was captured and answered ok.
C12_Witness ==
    /\ Len(hist) = 2
    /\ hist[1].runs = <<"exit1">>
    /\ Len(hist[1].acks) = 1 /\ ~hist[1].acks[1].ok
    /\ hist[2].runs = <<"exit0">>
    /\ Len(hist[2].acks) = 1 /\ hist[2].acks[1].ok

\* a decodable trigger has been taken and not acknowledged
Pending == hist # <<>> /\ Trigger.acks = <<>>

\* C13: every decodable trigger taken is eventually acknowledged.
C13_EveryTriggerAcked == Pending ~> (hist # <<>> /\ Trigger.acks # <<>>)

\* C14: the step that takes a datagram whose text does not start with shoot
\* leaves the position of every thread, the lock, the stream handle and
\* processes, the capture utility, the trigger in hand, the file name and
\* the acknowledgements as they were: only the datagram has been consumed.
C14_IgnoredChangesNothing ==
    [][(/\ pc[Main] = "recv"
        /\ received' = received + 1
        /\ ~StartsWith(Strip(Decode(datagram')), SHOOT))
       => /\ pc' = pc
          /\ UNCHANGED <<stream_lock, stream_proc, proc, jpeg, shoot_time,
                         prefix, outcome, acks, from_ip, filename, hist>>]_vars

\* C14 witness: after a trigger was captured and acknowledged, a foreign
\* datagram was taken while a live stream was running; the loop is back at
\* recvfrom and no second acknowledgement exists.
C14_Witness ==
    /\ received = 2
    /\ datagram = <<"p", "i", "n", "g">>
    /\ pc[Main] = "recv"
    /\ LiveStreams # {}
    /\ Len(hist) = 1
    /\ Len(acks) = 1

\* the components of a path, without the empty ones and "."
Components(f) ==
    SelectSeq(Split(f, "/"), LAMBDA c : c # <<>> /\ c # <<".">>)

\* the components left when every ".." has removed the one before it
RECURSIVE Resolve(_, _)
Resolve(done, todo) ==
    IF todo = <<>> THEN done
    ELSE IF Head(todo) = <<".", ".">>
    THEN Resolve(IF done = <<>> THEN done
                 ELSE SubSeq(done, 1, Len(done) - 1), Tail(todo))
    ELSE Resolve(Append(done, Head(todo)), Tail(todo))

\* the file f lies in SAVE_DIR or below it
InsideSaveDir(f) ==
    LET dir == Resolve(<<>>, Components(SAVE_DIR))
        file == Resolve(<<>>, Components(f))
    IN  /\ Len(file) > Len(dir)
        /\ SubSeq(file, 1, Len(dir)) = dir

\* C15: the file name built for the prefix of any trigger lies inside
\* SAVE_DIR (or no file name is built for the trigger).
C15_FilenameInsideSaveDir == ppc = "named" => InsideSaveDir(path)

\* C16: for a requested name containing "/" or "..", serve_image of the
\* node and of the viewer and proxy_image of the aggregator give no path to
\* the file system and make no upstream request, and answer with a 4xx
\* status at once.
C16_TraversalRejected ==
    (/\ request.svc \in {"node", "viewer", "central"}
     /\ HasSlash(request.name) \/ HasDotDot(request.name))
    => /\ touched = {}
       /\ fetched = <<>>
       /\ wpc \in {"call", "done"}
       /\ wpc = "done" => status \in 400..499

\* C16 witness: the aggregator has answered 400 to a request for ../a.jpg
\* on a reachable node that holds a.jpg.
C16_Witness ==
    /\ wpc = "done"
    /\ request = [svc |-> "central", idx |-> 1,
                  name |-> <<".", ".", "/">> \o ImgA]
    /\ nodes[2].up
    /\ ImgA \in FilesOf(1)
    /\ status = 400

\* C17: a request for a well-formed name whose artifact the node does not
\* hold is answered 404, by the node itself and by the aggregator's proxy
\* for a reachable node.
C17_AbsentIsNotFound ==
    (/\ wpc = "done"
     /\ request.svc \in {"node", "central"}
     /\ ~HasSlash(request.name) /\ ~HasDotDot(request.name)
     /\ request.idx < Len(PI_IPS)
     /\ request.svc = "central" => nodes[request.idx + 1].up
     /\ request.name \notin FilesOf(request.idx))
    => status = 404

\* the entry of index for the node at 1-based position i of PI_IPS
EntryFor(i) ==
    IF nodes[i].up
    THEN [ip |-> PI_IPS[i], online |-> TRUE, hostname |-> nodes[i].hostname,
          images |-> nodes[i].images]
    ELSE [ip |-> PI_IPS[i], online |-> FALSE]

\* C18: whichever nodes fail, index has one entry for each node asked so
\* far, in the order of PI_IPS, offline for a node that failed and online
\* with the node's own host name and image list otherwise; when it returns
\* (status 200) every configured node has its entry.
C18_InventoryFanIn ==
    request.svc = "index" =>
        /\ Len(pis_data) = Len(fetched)
        /\ \A i \in 1..Len(pis_data) : pis_data[i] = EntryFor(i)
        /\ wpc = "done" => (status = 200 /\ Len(pis_data) = Len(PI_IPS))

\* C18 witness: index has returned with the second node offline and the
\* first and third online with different image lists.
C18_Witness ==
    /\ request.svc = "index"
    /\ wpc = "done"
    /\ nodes[1].up /\ ~nodes[2].up /\ nodes[3].up
    /\ nodes[1].images = <<ImgA>>
    /\ nodes[3].images = <<ImgB, ImgA>>
    /\ ~pis_data[2].online
    /\ pis_data[3].images = <<ImgB, ImgA>>

\* C19: a handler whose generator is not running has no stream process and
\* does not own the stream handle, and its process is terminated before
\* ownership is released; so each Popen of a later request starts a new
\* process.
C19_TeardownOnEveryExit ==
    \A h \in Handlers :
        /\ pc[h] \in {"idle", "ks_enter", "ks_wait", "popen"}
              => (proc[h] = "none" /\ stream_proc # h)
        /\ pc[h] = "fin_clear" => proc[h] = "dead"

\* C19 witness: the generator of handler 1 is ending, its process
\* terminated, after handler 2 preempted it and registered a new process.
C19_Witness ==
    /\ pc[1] = "fin_clear"
    /\ proc[1] = "dead"
    /\ stream_proc = 2
    /\ proc[2] = "alive"

\* thread t is inside _kill_stream, or waits for _stream_lock to register
\* its process or to release ownership
Acquiring(t) == pc[t] \in {"ks_enter", "ks_wait", "register", "fin_clear"}

Served(k) == Len(hist[k].runs) = 1 /\ Len(hist[k].acks) = 1

\* C21: the loop is at recvfrom only when every trigger taken so far has
\* been served: each trigger before the one in hand has had its capture and
\* its acknowledgement, the acknowledgements were sent in the order the
\* triggers were taken, and rpicam-jpeg runs only while the loop is inside
\* subprocess.run for the trigger in hand.
C21_OneTriggerAtATime ==
    /\ \A k \in 1..(Len(hist) - 1) : Served(k)
    /\ pc[Main] = "recv" => \A k \in 1..Len(hist) : Served(k)
    /\ Len(acks) <= Len(hist)
    /\ \A k \in 1..Len(acks) : hist[k].acks = <<acks[k]>>
    /\ \A k \in 1..(Len(hist) - 1) : hist[k].taken <= hist[k + 1].taken
    /\ jpeg = "running" =>
          (pc[Main] = "running" /\ hist # <<>> /\ Trigger.runs = <<>>)

\* C21 witness: rpicam-jpeg runs for a second trigger, taken after the first
\* was captured and acknowledged.
C21_Witness ==
    /\ Len(hist) = 2
    /\ jpeg = "running"
    /\ Served(1)
    /\ Len(acks) = 1
    /\ hist[2].taken >= hist[1].taken + TRIGGER_SETTLE_SEC

\* C22: the step on which rpicam-jpeg exits takes the loop to its
\* acknowledgement and changes no stream process, no handler and not the
\* stream handle; a stream process comes to life only by the Popen of a
\* handler serving a /stream request, which starts a new process, and the
\* handle is set only by the handler that registers its own process.
C22_LazyResume ==
    [][/\ (jpeg = "running" /\ jpeg' = "idle") =>
             /\ pc'[Main] = "ack"
             /\ \A h \in Handlers : pc'[h] = pc[h]
             /\ UNCHANGED <<proc, stream_proc, stream_lock>>
       /\ \A h \in Handlers :
             (proc[h] # "alive" /\ proc'[h] = "alive") =>
                 (pc[h] = "popen" /\ proc[h] = "none" /\ pc'[h] = "register")
       /\ \A h \in Handlers :
             (stream_proc # h /\ stream_proc' = h) =>
                 (pc[h] = "register" /\ pc'[h] = "streaming")]_vars

\* C22 witness: the capture for the trigger at 300 ms has exited after it
\* preempted a live stream (the wait for the stream process took the whole
\* timeout); the preempted generator has not ended yet, no stream process is
\* alive and the handle is none.
C22_Witness ==
    /\ pc[Main] = "ack"
    /\ jpeg = "idle"
    /\ shoot_time = 300
    /\ now = shoot_time + TRIGGER_SETTLE_SEC + KILL_WAIT_TIMEOUT + 500
    /\ \E h \in Handlers : pc[h] = "streaming" /\ proc[h] = "dead"
    /\ LiveStreams = {}
    /\ stream_proc = NoProc

\* C23: the datagrams the controller has sent go to the configured
\* addresses in order, one each, on UDP_PORT, and all carry msg, which
\* every node decodes to the same instant and prefix; when the script ends
\* every address has had its datagram, and until then the script always
\* has a step to take: it waits for nothing.
C23_FanOut ==
    /\ Len(sent) <= Len(ips)
    /\ \A i \in 1..Len(sent) :
          /\ sent[i].to = ips[i]
          /\ sent[i].port = UDP_PORT
          /\ sent[i].payload = sent[1].payload
          /\ parse_message(sent[i].payload, 0)
                = Command(ctl_shoot_time, FILENAME_PREFIX_DEFAULT)
    /\ cpc = "done" => Len(sent) = Len(ips)
    /\ cpc \in {"build", "send"} => ENABLED NextC

\* C23 witness: the script has ended after three datagrams, time having
\* passed between the calls of sendto.
C23_Witness ==
    /\ cpc = "done"
    /\ Len(sent) = 3
    /\ ctl_clock + TRIGGER_LEAD > ctl_shoot_time
    /\ {sent[i].to : i \in 1..3} = {ips[i] : i \in 1..3}

\* _stream_proc refers to the process of handler h, which is not running
Stale(h) == stream_proc = h /\ proc[h] # "alive"

C25_NoFabricatedFrame ==
    \A k \in 1..Len(frames) :
        LET f == frames[k]
            o == frameOff[k]
        IN  /\ f = SubSeq(Stream, o + 1, o + Len(f))
            /\ Len(f) >= 4
            /\ SubSeq(f, 1, 2) = SOI
            /\ Find(Stream, EOI, o + 2) = o + Len(f) - 2
            /\ o >= Len(source.filler)
            /\ k > 1 => frameOff[k - 1] + Len(frames[k - 1]) <= o

\* C25 witness: the source has closed after filler bytes that end with FF
\* and two spans, the second with a start marker inside its body; both
\* spans were yielded.
C25_Witness ==
    /\ dpc = "done"
    /\ source.filler = <<217, 255>>
    /\ Len(frames) = 2
    /\ frameOff[1] = 2
    /\ frames[2] = SOI \o <<255, 216>> \o EOI

\* C26: an iteration of the inner loop either yields a frame and leaves buf
\* strictly shorter, or leaves the loop for the next read; and the
\* generator ends: no inner loop goes on for ever, every one comes back to
\* reading, and the read that finds the source exhausted ends the outer loop.
C26_ScanTerminates ==
    /\ [][dpc = "scan" =>
             \/ dpc' = "read" /\ frames' = frames
             \/ /\ dpc' = "scan"
                /\ Len(frames') = Len(frames) + 1
                /\ Len(buf') < Len(buf)]_vars
    /\ <>(dpc = "done")

\* C26 witness: the source has closed after one read had put two whole
\* spans and a dangling start marker into buf: the inner loop went round
\* three times on it, twice yielding a frame.
C26_Witness ==
    /\ dpc = "done"
    /\ Len(source.spans) = 2
    /\ Len(frames) = 2
    /\ source.tail # <<>>
    /\ buf = source.tail
    /\ source.filler = <<0>>

\* C27: the step that ends the generator of handler h sets _stream_proc to
\* None if it referred to h's process and leaves it as it is otherwise, and
\* touches no other handler's process; and a thread that enters
\* _kill_stream while the registered process runs goes on to terminate it.
C27_ClearOnlyOwnHandle ==
    [][/\ \A h \in Handlers :
             (pc[h] = "fin_clear" /\ pc'[h] = "idle") =>
                 /\ stream_proc = h => stream_proc' = NoProc
                 /\ stream_proc # h => stream_proc' = stream_proc
                 /\ \A g \in Handlers \ {h} : proc'[g] = proc[g]
       /\ \A t \in Threads :
             (/\ pc[t] = "ks_enter" /\ pc'[t] # "ks_enter"
              /\ stream_proc # NoProc /\ proc[stream_proc] = "alive") =>
                 (pc'[t] = "ks_wait" /\ stream_proc' = stream_proc)
       /\ \A t \in Threads :
             (pc[t] = "ks_wait" /\ pc'[t] # "ks_wait") =>
                 (proc'[stream_proc] = "dead" /\ stream_proc' = NoProc)]_vars

\* C27 witness: handler 2 has registered its running process while the
\* generator of handler 1, superseded, is about to release the handle; the
\* trigger loop is entering _kill_stream for a capture.
C27_Witness ==
    /\ pc[1] = "fin_clear"
    /\ pc[2] = "streaming"
    /\ stream_proc = 2
    /\ proc[2] = "alive"
    /\ stream_lock = Free
    /\ pc[Main] = "ks_enter"

\* the target instant of the trigger in hand was past when it was taken
Late == hist # <<>> /\ shoot_time # NaN /\ shoot_time <= Trigger.taken

\* C28: for a trigger taken after its target instant, busy_wait_until
\* returns on the clock reading at which the trigger was taken,
\* capture_jpeg is entered one settle interval (and at most MaxOversleep)
\* later, and when the loop is back at recvfrom the trigger has had its
\* one subprocess.run call and its one acknowledgement, the last one sent.
C28_LateTriggerServed ==
    Late =>
        /\ pc[Main] \in {"wait", "settle"} => now = Trigger.taken
        /\ pc[Main] = "ks_enter" =>
              now - Trigger.taken \in
                  TRIGGER_SETTLE_SEC..(TRIGGER_SETTLE_SEC + MaxOversleep)
        /\ pc[Main] = "recv" =>
              /\ Served(Len(hist))
              /\ Len(acks) = Len(hist)
              /\ Trigger.acks = <<acks[Len(acks)]>>

\* C28 witness: the trigger for the instant 300 ms, taken at 4000 ms behind
\* an earlier trigger's capture, has been captured and acknowledged.
C28_Witness ==
    /\ Len(hist) = 2
    /\ hist[1].taken = 0
    /\ hist[2].taken = 4000
    /\ shoot_time = 300
    /\ pc[Main] = "recv"
    /\ hist[2].runs = <<"exit0">>
    /\ Len(acks) = 2

====
